---- MODULE Spec2Model ----
(***************************************************************************)
(* The regg scanner (src/src/scanner.rs) and its file driver               *)
(* (src/src/lib.rs) as a state machine.                                    *)
(*                                                                         *)
(* A source text is a sequence of characters (Unicode scalar values).      *)
(* Rust's String is UTF-8: source.len() and the slices &source[a..b] count *)
(* BYTES, while chars().nth(i) counts characters.  The model keeps both    *)
(* views: every character has a width in bytes.                            *)
(***************************************************************************)
EXTENDS Integers, Sequences, FiniteSets, TLC

VARIABLES
  source,    \* Scanner.source, the text under scan (never changes)
  tokens,    \* Scanner.tokens
  start,     \* Scanner.start
  current,   \* Scanner.current
  line,      \* Scanner.line
  pc,        \* where the scan is: "loop", a sub-scan, "done" or "panic"
  panic,     \* why the thread panicked ("" while it has not)
  out,       \* the diagnostics printed by Regg::report, in order
  regg,      \* the Regg instance of the driver (self of run_file)
  status,    \* run_file: "running", "returned", "exit65" or "panicked"
  dispatches, \* history: the calls of scan_token made so far
  spans,     \* history: for every token, the <<start, current>> of its push
  skipped    \* history: the positions of the characters that scan_token
             \* consumed as the start of a delimiter that was not completed

vars ==
  <<source, tokens, start, current, line, pc, panic, out, regg, status,
    dispatches, spans, skipped>>

-----------------------------------------------------------------------------
(* Bounds of the model *)

\* longest source of the exhaustive family (every text over Alphabet)
MaxLen == 3
\* longest body / tag name / text of the structured families
MaxBody == 2
\* most pieces (texts, tags) between the delimiters of an embedded sub-template
MaxContent == 2
\* most calls of scan_tokens on one Scanner
MaxCalls == 2

-----------------------------------------------------------------------------
(* Characters *)

NUL == "NUL"          \* '\0', the sentinel of peek, peek_next, peek_third
NoChar == "None"      \* Option::None of chars().nth(i)
Euro == "U+20AC"      \* a character that takes three bytes in UTF-8

Letters == {"a", "b"}
Backtick == "BQ"       \* the backtick character
Alphabet ==
  {"-", "{", "}", "<", ">", "/", "(", Backtick, ")", " ", "\n", "a", Euro}

\* bytes of the UTF-8 encoding of one character
Width(c) == IF c = Euro THEN 3 ELSE 1

RECURSIVE ByteLen(_)
\* str::len(): the length of a text in bytes
ByteLen(s) == IF s = <<>> THEN 0 ELSE Width(Head(s)) + ByteLen(Tail(s))

\* byte offset of the character with index i (0-based) of the source
ByteOffset(i) == ByteLen(SubSeq(source, 1, i))

\* str::is_char_boundary
IsCharBoundary(b) == \E i \in 0..Len(source) : ByteOffset(i) = b

\* index of the character that starts at byte b (b is a boundary)
CharIndex(b) == CHOOSE i \in 0..Len(source) : ByteOffset(i) = b

\* &self.source[a..b] evaluates without a panic
SliceOk(a, b) ==
  /\ a <= b
  /\ b <= ByteLen(source)
  /\ IsCharBoundary(a)
  /\ IsCharBoundary(b)

\* &self.source[a..b], where SliceOk(a, b)
Slice(a, b) == SubSeq(source, CharIndex(a) + 1, CharIndex(b))

-----------------------------------------------------------------------------
(* Tokens and diagnostics *)

None == [some |-> FALSE, v |-> <<>>]
Some(s) == [some |-> TRUE, v |-> s]

Token(ty, lexeme, literal, ln) ==
  [token_type |-> ty, lexeme |-> lexeme, literal |-> literal, line |-> ln]

MsgFence == "Unterminated frontmatter fence token ---"
MsgBrace == "Unterminated curly brace }"
MsgBound == "Scanner went out of bound"
MsgNoChar == "Character does not exist"

\* Regg::new
ReggNew == [had_error |-> FALSE]

\* the line Regg::report prints
Diag(ln, msg) == [line |-> ln, msg |-> msg]

\* Regg::error (through Regg::report) on the instance r: the line is printed
\* and the flag of THAT instance is set
error(r, ln, msg) ==
  [regg |-> [r EXCEPT !.had_error = TRUE], printed |-> <<Diag(ln, msg)>>]

\* An error site of the scanner: let mut regg = Regg::new(); regg.error(..).
\* The instance is a local of the reporting function and is dropped with its
\* flag; what is left of the report is the printed line.
scanner_error(ln, msg) == error(ReggNew, ln, msg).printed

-----------------------------------------------------------------------------
(* Scanner primitives *)

\* Scanner::get_nth_char
get_nth_char(index) ==
  IF index < Len(source) THEN source[index + 1] ELSE NoChar

\* Scanner::is_at_end
is_at_end(cur) == cur >= ByteLen(source)

\* Scanner::peek; NoChar makes the unwrap() of the caller panic
peek(cur) == IF is_at_end(cur) THEN NUL ELSE get_nth_char(cur)

\* Scanner::peek_next
peek_next(cur) ==
  IF cur + 1 >= ByteLen(source) THEN NUL ELSE get_nth_char(cur + 1)

\* Scanner::peek_third
peek_third(cur) ==
  IF cur + 2 >= ByteLen(source) THEN NUL ELSE get_nth_char(cur + 2)

\* Scanner::advance, the character it returns
advance_char(cur) ==
  IF get_nth_char(cur) = NoChar THEN NUL ELSE get_nth_char(cur)

\* advance() with the increment of current forgotten
advance_cur_stuck(cur) == cur

\* Scanner::advance, the value of current after it
advance_cur(cur) == cur + 1

\* Scanner::advance, what it prints: its throwaway Regg reports a missing character
advance_out(cur, ln) ==
  IF get_nth_char(cur) = NoChar THEN scanner_error(ln, MsgNoChar) ELSE <<>>

RECURSIVE advance_out_n(_, _, _)
\* what n advance() calls in a row print
advance_out_n(cur, ln, n) ==
  IF n = 0 THEN <<>>
  ELSE advance_out(cur, ln) \o advance_out_n(advance_cur(cur), ln, n - 1)

RECURSIVE advance_cur_n(_, _)
\* current after n advance() calls in a row
advance_cur_n(cur, n) ==
  IF n = 0 THEN cur ELSE advance_cur_n(advance_cur(cur), n - 1)

\* Scanner::match_char, its result
match_ok(cur, expected) ==
  /\ ~is_at_end(cur)
  /\ get_nth_char(cur) # NoChar
  /\ get_nth_char(cur) = expected

\* match_char(), were it to consume the character that does not match
match_cur_greedy(cur, expected) == IF is_at_end(cur) THEN cur ELSE cur + 1

\* match_char() with the increment of current forgotten
match_cur_stuck(cur, expected) == cur

\* Scanner::match_char, current after it
match_cur(cur, expected) == IF match_ok(cur, expected) THEN cur + 1 ELSE cur

\* Scanner::match_char, what it prints
match_out(cur, ln) ==
  IF ~is_at_end(cur) /\ get_nth_char(cur) = NoChar
  THEN scanner_error(ln, MsgBound) ELSE <<>>

\* Scanner::match_char as one value
match_char(cur, ln, expected) ==
  [ok |-> match_ok(cur, expected),
   cur |-> match_cur(cur, expected),
   out |-> match_out(cur, ln)]

\* Scanner::add_token evaluates its slice &source[start..current] without a panic
add_token_ok(st, cur) == SliceOk(st, cur)

\* Scanner::add_token, the token it pushes
add_token(ty, literal, st, cur, ln) == Token(ty, Slice(st, cur), literal, ln)

-----------------------------------------------------------------------------
(* How a step ends *)

\* The step goes on at p.  The scanner holds no reference to the Regg of the
\* driver (its error sites report through scanner_error), so regg is left
\* as it is.
Goto(p, st, cur, ln, toks, o) ==
  /\ pc' = p
  /\ start' = st
  /\ current' = cur
  /\ line' = ln
  /\ tokens' = toks
  /\ out' = o
  /\ spans' = IF toks = tokens THEN spans
              ELSE Append(spans, <<IF pc = "loop" THEN current ELSE start, cur>>)
  /\ UNCHANGED <<source, panic, regg, status>>

\* The step panics: the panic unwinds through scan_tokens, run and run_file.
Abort(why, st, cur, ln, o) ==
  /\ pc' = "panic"
  /\ panic' = why
  /\ status' = "panicked"
  /\ start' = st
  /\ current' = cur
  /\ line' = ln
  /\ out' = o
  /\ UNCHANGED <<source, tokens, regg, spans>>

\* The end of a rule that emits a token: the literal &source[a..b] is sliced
\* first (when the token has one), then add_token slices the lexeme; either
\* slice may panic.  The scan goes on at p with start = nst.
Emit(p, nst, ty, hasLit, a, b, st, cur, ln, o) ==
  IF hasLit /\ ~SliceOk(a, b) THEN Abort("slice", st, cur, ln, o)
  ELSE IF ~add_token_ok(st, cur) THEN Abort("slice", st, cur, ln, o)
  ELSE Goto(p, nst, cur, ln,
            Append(tokens,
                   add_token(ty, IF hasLit THEN Some(Slice(a, b)) ELSE None,
                             st, cur, ln)),
            o)

-----------------------------------------------------------------------------
(* Scanner::scan_tokens and Scanner::scan_token *)

\* The call of scan_token at position cur consumes the first character of a
\* delimiter and the delimiter is not completed: a dash without two more
\* dashes, a slash without >, ( without a backtick, a backtick without ).
IncompleteDelimiter(cur) ==
  LET c == advance_char(cur)
      m1 == match_char(cur + 1, 0, "-")
  IN \/ c = "-" /\ ~(m1.ok /\ match_ok(m1.cur, "-"))
     \/ c = "/" /\ ~match_ok(cur + 1, ">")
     \/ c = "(" /\ ~match_ok(cur + 1, Backtick)
     \/ c = Backtick /\ ~match_ok(cur + 1, ")")

\* scan_token with the start += 2 after HTMLExprEnd forgotten
html_expr_end_start_stuck(st) == st

\* Scanner::scan_token, line 78: self.start += 2 after HTMLExprEnd was pushed
html_expr_end_start(st) == st + 2

\* One turn of the loop of scan_tokens: start = current, then scan_token up to
\* the call of a sub-scan (the rules without a sub-scan are done in the step).
ScanToken ==
  /\ pc = "loop"
  /\ ~is_at_end(current)
  /\ dispatches' = dispatches + 1
  /\ LET st == current
         c == advance_char(current)
         cur1 == advance_cur(current)
         o1 == out \o advance_out(current, line)
     IN CASE c = "-" ->
               LET m1 == match_char(cur1, line, "-")
                   m2 == match_char(m1.cur, line, "-")
               IN IF m1.ok
                  THEN IF m2.ok
                       THEN Goto("code_block", st, m2.cur, line, tokens,
                                 o1 \o m1.out \o m2.out)
                       ELSE Goto("loop", st, m2.cur, line, tokens,
                                 o1 \o m1.out \o m2.out)
                  ELSE Goto("loop", st, m1.cur, line, tokens, o1 \o m1.out)
          [] c = "{" -> Goto("expression", st, cur1, line, tokens, o1)
          [] c = "<" ->
               LET m == match_char(cur1, line, "/")
               IN IF m.ok
                  THEN Goto("closing_tag", st, m.cur, line, tokens, o1 \o m.out)
                  ELSE Goto("opening_tag_start", st, m.cur, line, tokens,
                            o1 \o m.out)
          [] c = ">" ->
               Emit("loop", st, "OpeningTagEnd", FALSE, 0, 0, st, cur1, line, o1)
          [] c = "/" ->
               LET m == match_char(cur1, line, ">")
               IN IF m.ok
                  THEN Emit("loop", st, "SelfClosingTagEnd", FALSE, 0, 0,
                            st, m.cur, line, o1 \o m.out)
                  ELSE Goto("loop", st, m.cur, line, tokens, o1 \o m.out)
          [] c = "(" ->
               LET m == match_char(cur1, line, Backtick)
               IN IF m.ok
                  THEN Emit("loop", st, "HTMLExprStart", FALSE, 0, 0,
                            st, m.cur, line, o1 \o m.out)
                  ELSE Goto("loop", st, m.cur, line, tokens, o1 \o m.out)
          [] c = Backtick ->
               LET m == match_char(cur1, line, ")")
               IN IF m.ok
                  THEN \* add_token, start += 2, then expression()
                       Emit("expression", html_expr_end_start(st),
                            "HTMLExprEnd", FALSE, 0, 0,
                            st, m.cur, line, o1 \o m.out)
                  ELSE Goto("loop", st, m.cur, line, tokens, o1 \o m.out)
          [] c \in {" ", "\r", "\t"} -> Goto("loop", st, cur1, line, tokens, o1)
          [] c = "\n" -> Goto("loop", st, cur1, line + 1, tokens, o1)
          [] OTHER -> Goto("text_token", st, cur1, line, tokens, o1)
  /\ skipped' = IF IncompleteDelimiter(current)
                THEN skipped \cup (current..(current' - 1))
                ELSE skipped

\* scan_tokens with the push of the EOF token forgotten
ScanTokensEnd_NoEOF ==
  /\ UNCHANGED <<dispatches, skipped>>
  /\ pc = "loop"
  /\ is_at_end(current)
  /\ Goto("done", start, current, line, tokens, out)

\* The loop of scan_tokens is left: the EOF token is pushed and the tokens
\* are returned.
ScanTokensEnd ==
  /\ pc = "loop"
  /\ UNCHANGED <<dispatches, skipped>>
  /\ is_at_end(current)
  /\ Goto("done", start, current, line,
          Append(tokens, Token("EOF", <<>>, None, line)), out)

\* the calls of scan_tokens that have returned: each one pushed an EOF token
Returned == Cardinality({i \in 1..Len(tokens) : tokens[i].token_type = "EOF"})

\* scan_tokens is public and takes &mut self: a caller that holds the Scanner
\* calls it again after it has returned.  The fields are as the last call
\* left them; the call enters the loop of scan_tokens.
ScanTokensCall ==
  /\ pc = "done"
  /\ Returned < MaxCalls
  /\ pc' = "loop"
  /\ UNCHANGED <<source, tokens, start, current, line, panic, out, regg,
                 status, dispatches, spans, skipped>>

-----------------------------------------------------------------------------
(* The sub-scans.  Each loop has a test that says what its next turn does:   *)
(* "body" (a turn of the loop, which consumes a character), "exit" (the loop *)
(* is left) or "panic" (an unwrap() of None while the test or the body is    *)
(* evaluated).                                                               *)

\* the newline bookkeeping of every loop body
count_line(cur, ln) == IF peek(cur) = "\n" THEN ln + 1 ELSE ln

\* Scanner::code_block, the loop at lines 93-103
code_block_test(cur) ==
  IF is_at_end(cur) THEN "exit"
  ELSE IF peek(cur) = NoChar THEN "panic"
  ELSE IF peek(cur) = "-" THEN "exit"
  ELSE IF peek_next(cur) = NoChar THEN "panic"
  ELSE IF peek_next(cur) = "-" THEN "exit"
  ELSE IF peek_third(cur) = NoChar THEN "panic"
  ELSE IF peek_third(cur) = "-" THEN "exit"
  ELSE "body"

CodeBlockLoop ==
  /\ pc = "code_block"
  /\ UNCHANGED <<dispatches, skipped>>
  /\ code_block_test(current) = "body"
  /\ Goto("code_block", start, advance_cur(current),
          count_line(current, line), tokens,
          out \o advance_out(current, count_line(current, line)))

\* Scanner::code_block, lines 105-118
CodeBlockEnd ==
  /\ pc = "code_block"
  /\ UNCHANGED <<dispatches, skipped>>
  /\ code_block_test(current) # "body"
  /\ IF code_block_test(current) = "panic"
     THEN Abort("unwrap", start, current, line, out)
     ELSE LET o1 == IF is_at_end(current)
                    THEN out \o scanner_error(line, MsgFence) ELSE out
              cur5 == advance_cur_n(current, 5)
              o2 == o1 \o advance_out_n(current, line, 5)
          IN Emit("loop", start, "CodeBlock", TRUE, start + 3, cur5 - 3,
                  start, cur5, line, o2)

\* the loop of opening_tag_start, were it to stop before a slash as well
opening_tag_start_test_slash(cur) ==
  IF is_at_end(cur) THEN "exit"
  ELSE IF peek(cur) = NoChar THEN "panic"
  ELSE IF peek(cur) = " " THEN "exit"
  ELSE IF peek(cur) = ">" THEN "exit"
  ELSE IF peek(cur) = "/" THEN "exit"
  ELSE "body"

\* the loop of opening_tag_start with the break before > forgotten
opening_tag_start_test_no_break(cur) ==
  IF is_at_end(cur) THEN "exit"
  ELSE IF peek(cur) = NoChar THEN "panic"
  ELSE IF peek(cur) = " " THEN "exit"
  ELSE "body"

\* Scanner::opening_tag_start, the loop at lines 123-131
opening_tag_start_test(cur) ==
  IF is_at_end(cur) THEN "exit"
  ELSE IF peek(cur) = NoChar THEN "panic"
  ELSE IF peek(cur) = " " THEN "exit"
  ELSE IF peek(cur) = ">" THEN "exit"
  ELSE "body"

OpeningTagStartLoop ==
  /\ pc = "opening_tag_start"
  /\ UNCHANGED <<dispatches, skipped>>
  /\ opening_tag_start_test(current) = "body"
  /\ Goto("opening_tag_start", start, advance_cur(current),
          count_line(current, line), tokens,
          out \o advance_out(current, count_line(current, line)))

\* Scanner::opening_tag_start, lines 133-135
OpeningTagStartEnd ==
  /\ pc = "opening_tag_start"
  /\ UNCHANGED <<dispatches, skipped>>
  /\ opening_tag_start_test(current) # "body"
  /\ IF opening_tag_start_test(current) = "panic"
     THEN Abort("unwrap", start, current, line, out)
     ELSE Emit("loop", start, "OpeningTagStart", TRUE, start + 1, current,
               start, current, line, out)

\* Scanner::closing_tag, the loop at lines 140-146
closing_tag_test(cur) ==
  IF is_at_end(cur) THEN "exit"
  ELSE IF peek(cur) = NoChar THEN "panic"
  ELSE IF peek(cur) = ">" THEN "exit"
  ELSE "body"

ClosingTagLoop ==
  /\ pc = "closing_tag"
  /\ UNCHANGED <<dispatches, skipped>>
  /\ closing_tag_test(current) = "body"
  /\ Goto("closing_tag", start, advance_cur(current),
          count_line(current, line), tokens,
          out \o advance_out(current, count_line(current, line)))

\* Scanner::closing_tag, lines 148-151
ClosingTagEnd ==
  /\ pc = "closing_tag"
  /\ UNCHANGED <<dispatches, skipped>>
  /\ closing_tag_test(current) # "body"
  /\ IF closing_tag_test(current) = "panic"
     THEN Abort("unwrap", start, current, line, out)
     ELSE LET cur1 == advance_cur(current)
              o1 == out \o advance_out(current, line)
          IN Emit("loop", start, "ClosingTag", TRUE, start + 2, cur1 - 1,
                  start, cur1, line, o1)

\* Scanner::text_token, the loop at lines 156-173
text_token_test(cur) ==
  IF is_at_end(cur) THEN "exit"
  ELSE IF peek(cur) = NoChar THEN "panic"
  ELSE IF peek(cur) = ">" \/ peek(cur) = "<" THEN "exit"
  ELSE IF peek(cur) = "/" /\ peek_next(cur) = NoChar THEN "panic"
  ELSE IF peek(cur) = "/" /\ peek_next(cur) = ">" THEN "exit"
  ELSE IF peek(cur) = "{" THEN "exit"
  ELSE "body"

TextTokenLoop ==
  /\ pc = "text_token"
  /\ UNCHANGED <<dispatches, skipped>>
  /\ text_token_test(current) = "body"
  /\ Goto("text_token", start, advance_cur(current),
          count_line(current, line), tokens,
          out \o advance_out(current, count_line(current, line)))

\* Scanner::text_token, lines 175-177
TextTokenEnd ==
  /\ pc = "text_token"
  /\ UNCHANGED <<dispatches, skipped>>
  /\ text_token_test(current) # "body"
  /\ IF text_token_test(current) = "panic"
     THEN Abort("unwrap", start, current, line, out)
     ELSE Emit("loop", start, "TextToken", TRUE, start, current,
               start, current, line, out)

\* Scanner::expression, the loop at lines 182-194, up to the advance
expression_test(cur) ==
  IF is_at_end(cur) THEN "exit"
  ELSE IF peek(cur) = NoChar THEN "panic"
  ELSE IF peek(cur) = "(" /\ peek_next(cur) = NoChar THEN "panic"
  ELSE IF peek(cur) = "(" /\ peek_next(cur) = Backtick THEN "exit"
  ELSE "body"

\* A turn of the loop consumes a character; the loop is left right after it
\* when the character is the closing brace.
ExpressionLoop ==
  /\ pc = "expression"
  /\ UNCHANGED <<dispatches, skipped>>
  /\ expression_test(current) = "body"
  /\ Goto(IF advance_char(current) = "}" THEN "expression_after"
                                          ELSE "expression",
          start, advance_cur(current), count_line(current, line), tokens,
          out \o advance_out(current, count_line(current, line)))

\* Scanner::expression, lines 196-215 (entered when the loop is left)
ExpressionEnd ==
  /\ \/ pc = "expression" /\ expression_test(current) # "body"
     \/ pc = "expression_after"
  /\ UNCHANGED <<dispatches, skipped>>
  /\ IF pc = "expression" /\ expression_test(current) = "panic"
     THEN Abort("unwrap", start, current, line, out)
     ELSE LET o1 == IF is_at_end(current)
                    THEN out \o scanner_error(line, MsgBrace) ELSE out
              brace == peek(current) = "}"
              cur2 == IF brace THEN advance_cur_n(current, 2) ELSE current
              o2 == IF brace THEN o1 \o advance_out_n(current, line, 2)
                    ELSE o1
          IN IF peek(current) = NoChar
             THEN Abort("unwrap", start, current, line, o1)
             ELSE IF start = 0
             THEN \* self.start - 1 on a usize of 0
                  Abort("underflow", start, cur2, line, o2)
             ELSE IF get_nth_char(start - 1) = NoChar
             THEN Abort("unwrap", start, cur2, line, o2)
             ELSE IF get_nth_char(start - 1) = ")"
             THEN Emit("loop", start, "Expression", TRUE, start, cur2 - 1,
                       start, cur2, line, o2)
             ELSE Emit("loop", start, "Expression", TRUE, start + 1, cur2 - 1,
                       start, cur2, line, o2)

-----------------------------------------------------------------------------
(* The driver: Regg::run_file and Regg::run *)

\* scan_tokens has returned: run prints the tokens and returns, and run_file
\* exits with status 65 when the had_error flag of its Regg is set.
RunFileEnd ==
  /\ pc = "done"
  /\ status = "running"
  /\ status' = IF regg.had_error THEN "exit65" ELSE "returned"
  /\ UNCHANGED <<source, tokens, start, current, line, pc, panic, out, regg,
                 dispatches, spans, skipped>>

-----------------------------------------------------------------------------
(* The source texts of the model *)

\* the sequences over S of length at most n
Seqs(S, n) == UNION {[1..k -> S] : k \in 0..n}

\* the same, the empty sequence left out
Seqs1(S, n) == Seqs(S, n) \ {<<>>}

\* s holds the two-character sequence ( backtick
HasExprStart(s) ==
  \E i \in 1..(Len(s) - 1) : s[i] = "(" /\ s[i + 1] = Backtick

Fence == <<"-", "-", "-">>
Separators == {" ", "\n"}

\* every text of at most MaxLen characters
AllShort == Seqs(Alphabet, MaxLen)

\* { body }
ExprInput(body) == <<"{">> \o body \o <<"}">>
ExprBodies == {b \in Seqs(Alphabet \ {"}"}, MaxBody) : ~HasExprStart(b)}
ExprInputs == {ExprInput(b) : b \in ExprBodies}

\* --- separator body separator ---
FenceInput(s1, body, s2) == Fence \o <<s1>> \o body \o <<s2>> \o Fence
FenceBodies == Seqs(Alphabet \ {"-"}, MaxBody)
FenceInputs ==
  {FenceInput(s1, b, s2) : s1 \in Separators, b \in FenceBodies,
                           s2 \in Separators}

\* s holds three dashes in a row that start at index from or later
HasFence(s, from) ==
  \E i \in from..(Len(s) - 2) : s[i] = "-" /\ s[i + 1] = "-" /\ s[i + 2] = "-"

\* --- rest, with no later --- (dashes that stand alone or in pairs allowed)
UnclosedFenceInput(rest) == Fence \o rest
UnclosedFenceRests ==
  {b \in Seqs({"-", "a", "\n"}, MaxBody) : ~HasFence(Fence \o b, 2)}
UnclosedFenceInputs == {UnclosedFenceInput(b) : b \in UnclosedFenceRests}

\* <n>t</n>
TagInput(n, t) == <<"<">> \o n \o <<">">> \o t \o <<"<", "/">> \o n \o <<">">>
Names == Seqs1(Letters, MaxBody)
TagInputs == {TagInput(n, t) : n \in Names, t \in Names}

\* <n />
SelfCloseInput(n) == <<"<">> \o n \o <<" ", "/", ">">>
SelfCloseInputs == {SelfCloseInput(n) : n \in Names}

\* <n/>, no space before the slash
TightSelfCloseInput(n) == <<"<">> \o n \o <<"/", ">">>
TightSelfCloseInputs == {TightSelfCloseInput(n) : n \in Names}

\* a text that starts with a character of several bytes, then the character
\* that stops the text scan
WideTextInput(t, stop) == <<Euro>> \o t \o <<stop>>
WideTextRests == Seqs({"/", "a"}, MaxBody)
WideTextInputs ==
  {WideTextInput(t, stop) : t \in WideTextRests, stop \in {"<", ">", "{"}}

\* lead { pre ( backtick content backtick ) trail }
EmbedInput(pre, content, trail) ==
  <<" ", "{">> \o pre \o <<"(", Backtick>> \o content \o <<Backtick, ")">>
    \o trail \o <<"}">>
EmbedPres == {<<"a">>}
\* the pieces of an embedded sub-template: a text, <a>, </a>, <a />
EmbedPieces ==
  {<<"a">>, <<"<", "a", ">">>, <<"<", "/", "a", ">">>,
   <<"<", "a", " ", "/", ">">>}
RECURSIVE Concats(_)
\* the texts made of at most n pieces
Concats(n) ==
  IF n = 0 THEN {<<>>}
  ELSE Concats(n - 1) \cup {c \o q : c \in Concats(n - 1), q \in EmbedPieces}
EmbedContents == Concats(MaxContent)
EmbedTrails == Seqs({"a"}, MaxBody)
EmbedInputs ==
  {EmbedInput(p, c, t) : p \in EmbedPres, c \in EmbedContents,
                         t \in EmbedTrails}

\* the texts of a given shape
Shaped ==
  ExprInputs \cup FenceInputs \cup TagInputs \cup SelfCloseInputs
    \cup EmbedInputs \cup UnclosedFenceInputs \cup TightSelfCloseInputs
    \cup WideTextInputs

\* Scanner::new, all of the state but the source
ScannerNew ==
  /\ tokens = <<>>
  /\ start = 0
  /\ current = 0
  /\ line = 1
  /\ pc = "loop"
  /\ panic = ""
  /\ out = <<>>
  /\ regg = ReggNew
  /\ status = "running"
  /\ dispatches = 0
  /\ spans = <<>>
  /\ skipped = {}

\* run_file has read the text of the file and run has built a fresh Scanner
Init ==
  /\ source \in AllShort \cup Shaped
  /\ ScannerNew

\* the same with the exhaustive family one character shorter (liveness is
\* the costlier check)
FairInit ==
  /\ source \in Seqs(Alphabet, MaxLen - 1) \cup Shaped
  /\ ScannerNew

Next ==
  \/ ScanToken
  \/ ScanTokensEnd
  \/ CodeBlockLoop
  \/ CodeBlockEnd
  \/ OpeningTagStartLoop
  \/ OpeningTagStartEnd
  \/ ClosingTagLoop
  \/ ClosingTagEnd
  \/ TextTokenLoop
  \/ TextTokenEnd
  \/ ExpressionLoop
  \/ ExpressionEnd
  \/ RunFileEnd

Spec == Init /\ [][Next]_vars

\* the same Scanner with a caller that calls scan_tokens up to MaxCalls times
RecallNext == Next \/ ScanTokensCall

RecallSpec == Init /\ [][RecallNext]_vars

\* The scan is sequential code: a step that can be taken is taken.
FairSpec == FairInit /\ [][Next]_vars /\ WF_vars(Next)

-----------------------------------------------------------------------------
(* Vocabulary of the properties *)

\* the call of scan_tokens is over: it has returned or it has panicked
Ended == pc \in {"done", "panic"}

\* the kinds and literals of a token sequence
Shape(toks) ==
  [i \in 1..Len(toks) |-> <<toks[i].token_type, toks[i].literal>>]

\* the number of newline characters of a text
Newlines(s) == Cardinality({i \in 1..Len(s) : s[i] = "\n"})

\* the characters the cursor has consumed when current = cur
Consumed(cur) ==
  SubSeq(source, 1, IF cur <= Len(source) THEN cur ELSE Len(source))

\* the token sequence ends with an EOF token, empty lexeme, no literal, and
\* holds no other EOF token
EndsWithOneEOF ==
  /\ Len(tokens) >= 1
  /\ tokens[Len(tokens)].token_type = "EOF"
  /\ tokens[Len(tokens)].lexeme = <<>>
  /\ tokens[Len(tokens)].literal = None
  /\ \A i \in 1..(Len(tokens) - 1) : tokens[i].token_type # "EOF"

-----------------------------------------------------------------------------
(* The claims *)

\* C1: the token sequence that a single call of scan_tokens on a fresh
\* Scanner returns ends with an EOF token with an empty lexeme and no
\* literal, and holds no other EOF token (none is pushed before the return).
C1_OneFinalEOF ==
  /\ pc = "done" => EndsWithOneEOF
  /\ pc # "done" => \A i \in 1..Len(tokens) : tokens[i].token_type # "EOF"

\* C1 happens: a scan that emitted several tokens has returned
C1_Witness ==
  /\ pc = "done"
  /\ Len(tokens) >= 3

\* C2: for every input, also one that ends in the middle of a code block, an
\* expression or a closing tag, no sub-scan aborts the scan (no out-of-range
\* slice, no arithmetic underflow, no failed unwrap), and the loop of
\* scan_tokens ends when current has reached the length of the source.
C2_ScanRunsToCompletion ==
  /\ panic = ""
  /\ Ended => (pc = "done" /\ is_at_end(current))

\* C3: for the input { body }, the body without a closing brace and without
\* the pair ( backtick, scan_tokens yields exactly two tokens: Expression
\* with the body as its literal, then EOF.
C3_BracedBodyIsExpression ==
  (source \in ExprInputs /\ Ended)
    => \E b \in ExprBodies :
         /\ source = ExprInput(b)
         /\ Shape(tokens) = <<<<"Expression", Some(b)>>, <<"EOF", None>>>>

\* C4: for the input --- separator body separator ---, the body without a
\* dash, scan_tokens yields exactly one CodeBlock token, and its literal is
\* the body with both fences and both separators removed.
C4_FencedBodyIsCodeBlock ==
  (source \in FenceInputs /\ Ended)
    => \E s1 \in Separators, s2 \in Separators, b \in FenceBodies :
         /\ source = FenceInput(s1, b, s2)
         /\ Cardinality({i \in 1..Len(tokens) :
                           tokens[i].token_type = "CodeBlock"}) = 1
         /\ \A i \in 1..Len(tokens) :
              tokens[i].token_type = "CodeBlock"
                => tokens[i].literal = Some(b)

\* C5: the line of every emitted token (EOF included) is 1 plus the number
\* of newline characters the cursor has consumed when the token is emitted,
\* whichever rule or sub-scan consumed them.
C5_LineCountsConsumedNewlines ==
  [][Len(tokens') > Len(tokens)
       => tokens'[Len(tokens')].line = 1 + Newlines(Consumed(current'))]_vars

\* the tokens the scanner is to yield for <n>t</n>
TagShape(n, t) ==
  <<<<"OpeningTagStart", Some(n)>>, <<"OpeningTagEnd", None>>,
    <<"TextToken", Some(t)>>, <<"ClosingTag", Some(n)>>, <<"EOF", None>>>>

\* C6: for the input <n>t</n>, n and t non-empty and made of letters, the
\* scan does not abort and yields exactly OpeningTagStart(n), OpeningTagEnd,
\* TextToken(t), ClosingTag(n), EOF, in that order.
C6_TagPairTokens ==
  source \in TagInputs
    => /\ pc # "panic"
       /\ pc = "done"
            => \E n \in Names, t \in Names :
                 /\ source = TagInput(n, t)
                 /\ Shape(tokens) = TagShape(n, t)

\* C6 happens: a tag pair with a name and a text of two letters is scanned
C6_Witness ==
  /\ source = TagInput(<<"a", "b">>, <<"b", "a">>)
  /\ pc = "done"
  /\ Len(tokens) = 5

\* C7: for the input <n />, n non-empty and made of letters, the scan does
\* not abort and yields exactly OpeningTagStart(n), SelfClosingTagEnd, EOF;
\* the space yields no token.
C7_SelfClosingTokens ==
  source \in SelfCloseInputs
    => /\ pc # "panic"
       /\ pc = "done"
            => \E n \in Names :
                 /\ source = SelfCloseInput(n)
                 /\ Shape(tokens) = <<<<"OpeningTagStart", Some(n)>>,
                                      <<"SelfClosingTagEnd", None>>,
                                      <<"EOF", None>>>>

\* C7 happens: a self-closing tag with a name of two letters is scanned
C7_Witness ==
  /\ source = SelfCloseInput(<<"b", "a">>)
  /\ pc = "done"
  /\ Len(tokens) = 3

\* C8: for an expression that embeds a sub-template between ( backtick and
\* backtick ), whatever the embedded content is, the output holds
\* HTMLExprStart, later HTMLExprEnd, and directly after HTMLExprEnd an
\* Expression token whose scan starts right after the closing delimiter and
\* whose literal is the trailing text up to the next closing brace.
C8_EmbedIsDelimited ==
  (source \in EmbedInputs /\ Ended)
    => \E p \in EmbedPres, c \in EmbedContents, t \in EmbedTrails :
         /\ source = EmbedInput(p, c, t)
         /\ pc = "done"
         /\ \E i \in 1..Len(tokens), j \in 1..(Len(tokens) - 1) :
              /\ i < j
              /\ tokens[i].token_type = "HTMLExprStart"
              /\ tokens[j].token_type = "HTMLExprEnd"
              /\ tokens[j + 1].token_type = "Expression"
              /\ tokens[j + 1].lexeme = t \o <<"}">>
              /\ tokens[j + 1].literal = Some(t)

\* C9: when the scanner has reported a diagnostic during run_file, the
\* had_error flag of the driver is set after run returns and the process
\* exits with status 65; with no diagnostic run_file returns normally.
C9_DiagnosticExits65 ==
  (pc = "done" /\ status # "running")
    => /\ out # <<>> => (regg.had_error /\ status = "exit65")
       /\ out = <<>> => status = "returned"

\* a turn of the loop of scan_tokens or of the loop of a sub-scan
LoopTurn ==
  \/ ScanToken
  \/ CodeBlockLoop
  \/ OpeningTagStartLoop
  \/ ClosingTagLoop
  \/ TextTokenLoop
  \/ ExpressionLoop

\* how far a position of the scan is from its end, the cursor left aside
Phase(p) ==
  CASE p \in {"done", "panic"} -> 0
    [] p = "loop" -> 1
    [] p = "expression_after" -> 2
    [] OTHER -> 3

\* A step moves the cursor forward, or leaves it and moves the scan nearer
\* to its end, or is the return of run_file.
StepsForward ==
  \/ current' > current
  \/ current' = current /\ Phase(pc') < Phase(pc)
  \/ current' = current /\ pc' = pc /\ status = "running"
       /\ status' # "running"

\* C10: scan_tokens terminates on every input: every turn of the loop of
\* scan_tokens and every turn of a sub-scan loop strictly increases current,
\* which never passes the length of the source by more than the unconditional
\* advances; every step brings the scan nearer to its end (a return or a
\* panic); and scan_token is called at most length(source) times.
C10_ScanTerminates ==
  /\ [][LoopTurn => current' > current]_vars
  /\ [][StepsForward]_vars
  /\ [](current <= ByteLen(source) + 5)
  /\ [](dispatches <= ByteLen(source) /\ dispatches <= current)

\* Under fairness (a step that can be taken is taken) the call ends.
ScanEnds == <>Ended

\* C10 happens: a scan of several calls of scan_token, one of them with a
\* sub-scan loop, has returned
C10_Witness ==
  /\ pc = "done"
  /\ dispatches >= 3
  /\ \E i \in 1..Len(tokens) : Len(tokens[i].lexeme) >= 3

\* C11: in every state reachable during a scan, 0 <= start <= current <=
\* length(source) (the length taken in bytes, as is_at_end takes it, which is
\* the larger of the two lengths): the unconditional advances of code_block,
\* closing_tag and expression and the start += 2 after HTMLExprEnd never move
\* current past the end of the source or start past current.
C11_CursorInBounds ==
  /\ 0 <= start
  /\ start <= current
  /\ current <= ByteLen(source)

\* the diagnostic that a step has printed first, if it has printed one
Reported(msg) ==
  /\ Len(out') > Len(out)
  /\ out'[Len(out) + 1].msg = msg

\* C12: an expression scan reports the unterminated-brace diagnostic if and
\* only if its loop reached the end of the input without having consumed a
\* closing brace; none is reported for an expression whose closing brace is
\* the last character of the input.
C12_UnterminatedIffNoBrace ==
  [][ExpressionEnd
       => (Reported(MsgBrace) <=> (pc = "expression" /\ is_at_end(current)))]_vars

\* the diagnostic msg has been printed
Printed(msg) == \E i \in 1..Len(out) : out[i].msg = msg

\* C13: for every input that opens a fence at a dispatch point and holds no
\* later three dashes in a row, the code-block scan reports the unterminated
\* fence diagnostic; and it reports that diagnostic for no input whose
\* opening fence is followed by a body and a closing fence.
C13_UnterminatedFenceReported ==
  /\ (source \in UnclosedFenceInputs /\ Ended) => Printed(MsgFence)
  /\ source \in FenceInputs => ~Printed(MsgFence)

\* C14: in the expression scan, once the loop is left, the test that the
\* next character is a closing brace is never true and consumes nothing:
\* current is after the test what it was right after the loop, also when the
\* closing brace is directly followed by another closing brace.
C14_BraceCheckConsumesNothing ==
  [][ExpressionEnd => (peek(current) # "}" /\ current' = current)]_vars

\* the characters of the source with the indices a (included) to b (excluded),
\* the indices counting characters
Codepoints(a, b) == SubSeq(source, a + 1, b)

\* the literal of a token of type ty pushed with start = s and current = c,
\* its indices counting characters
CodepointLiteral(ty, s, c) ==
  CASE ty = "CodeBlock" -> Some(Codepoints(s + 3, c - 3))
    [] ty = "OpeningTagStart" -> Some(Codepoints(s + 1, c))
    [] ty = "ClosingTag" -> Some(Codepoints(s + 2, c - 1))
    [] ty = "TextToken" -> Some(Codepoints(s, c))
    [] ty = "Expression" ->
         IF s > 0 /\ get_nth_char(s - 1) = ")"
         THEN Some(Codepoints(s, c - 1)) ELSE Some(Codepoints(s + 1, c - 1))
    [] OTHER -> None

\* every lexeme and literal is the slice of characters between its indices
TokensAreCodepointSlices ==
  \A i \in 1..Len(tokens) :
    /\ tokens[i].lexeme = Codepoints(spans[i][1], spans[i][2])
    /\ tokens[i].literal =
         CodepointLiteral(tokens[i].token_type, spans[i][1], spans[i][2])

\* C15: the source is addressed by character (codepoint) index everywhere,
\* also when it holds characters of several bytes: the end of the input is
\* detected exactly when current has reached the number of characters; peek,
\* peek_next and peek_third give the NUL sentinel for every position at or
\* past that number; every lexeme and literal is the slice of characters
\* between its indices.
C15_CodepointAddressing ==
  /\ is_at_end(current) <=> current >= Len(source)
  /\ current >= Len(source) => peek(current) = NUL
  /\ current + 1 >= Len(source) => peek_next(current) = NUL
  /\ current + 2 >= Len(source) => peek_third(current) = NUL
  /\ TokensAreCodepointSlices

\* a TextToken whose literal is its lexeme and whose lexeme holds, after its
\* first character, none of < > { and no pair />
TextTokenShape(t) ==
  /\ t.literal = Some(t.lexeme)
  /\ Len(t.lexeme) >= 1
  /\ \A i \in 2..Len(t.lexeme) : t.lexeme[i] \notin {"<", ">", "{"}
  /\ \A i \in 1..(Len(t.lexeme) - 1) :
       ~(t.lexeme[i] = "/" /\ t.lexeme[i + 1] = ">")

\* the text scan stops before the character at position cur
StopsText(cur) ==
  \/ peek(cur) \in {"<", ">", "{"}
  \/ peek(cur) = "/" /\ peek_next(cur) = ">"

\* C16: every TextToken has a literal equal to its lexeme (the whole consumed
\* slice, untrimmed); the text scan stops, without consuming it, before <, >,
\* { or / directly followed by >, or at the end of the input: after its first
\* character the lexeme holds none of <, >, { and no pair />, and the
\* character that stopped the scan is the first one of the next dispatch.
C16_TextTokenStops ==
  /\ [](\A i \in 1..Len(tokens) :
          tokens[i].token_type = "TextToken" => TextTokenShape(tokens[i]))
  /\ [][(TextTokenEnd /\ pc' = "loop")
          => /\ current' = current
             /\ Len(tokens') = Len(tokens) + 1
             /\ tokens'[Len(tokens')].token_type = "TextToken"
             /\ tokens'[Len(tokens')].lexeme = Codepoints(start, current)
             /\ is_at_end(current) \/ StopsText(current)]_vars
  /\ [](\A i \in 1..(Len(tokens) - 1) :
          tokens[i].token_type = "TextToken"
            => /\ spans[i + 1][1] = spans[i][2]
               /\ tokens[i + 1].token_type # "EOF"
                    => tokens[i + 1].lexeme[1] \in {"<", ">", "{", "/"})

\* C17: the opening-tag-start scan stops only before a space, before > or at
\* the end of the input.  For the input <n/>, with no space before the slash,
\* the tokens are OpeningTagStart with the literal n followed by the slash,
\* then OpeningTagEnd, then EOF; no SelfClosingTagEnd token is emitted.
C17_TightSlashFoldsIntoName ==
  /\ [][(OpeningTagStartEnd /\ pc' = "loop")
          => (is_at_end(current) \/ peek(current) \in {" ", ">"})]_vars
  /\ [](source \in TightSelfCloseInputs
          => /\ pc # "panic"
             /\ \A i \in 1..Len(tokens) :
                  tokens[i].token_type # "SelfClosingTagEnd"
             /\ pc = "done"
                  => \E n \in Names :
                       /\ source = TightSelfCloseInput(n)
                       /\ Shape(tokens) =
                            <<<<"OpeningTagStart", Some(n \o <<"/">>)>>,
                              <<"OpeningTagEnd", None>>, <<"EOF", None>>>>)

\* C17 happens: a self-closing tag of two letters without the space is scanned
C17_Witness ==
  /\ source = TightSelfCloseInput(<<"a", "b">>)
  /\ pc = "done"
  /\ Len(tokens) = 3
  /\ tokens[1].lexeme = <<"<", "a", "b", "/">>

\* C18: however many times scan_tokens is called on the same Scanner, the
\* token sequence it returns holds exactly one EOF token, and that token is
\* the last one.
C18_EveryCallOneFinalEOF ==
  (pc = "done" /\ Returned >= 1) => EndsWithOneEOF

\* the dispatcher consumes a dash that is followed by exactly one more dash
DashPair(cur) == advance_char(cur) = "-" /\ match_ok(cur + 1, "-")

C20_TokensInSourceOrder ==
  pc = "done"
    => /\ \A i \in 1..(Len(tokens) - 1) :
            (tokens[i].token_type # "EOF" /\ tokens[i + 1].token_type # "EOF")
              => /\ spans[i][1] <= spans[i][2]
                 /\ spans[i][2] <= spans[i + 1][1]
                 /\ spans[i + 1][1] <= spans[i + 1][2]
       /\ \A i \in 1..(Len(tokens) - 1) : tokens[i].line <= tokens[i + 1].line

\* C20 happens: a completed scan holds an Expression token pushed right
\* after HTMLExprEnd, which starts where HTMLExprEnd ends
C20_Witness ==
  /\ pc = "done"
  /\ \E i \in 1..(Len(tokens) - 1) :
       /\ tokens[i].token_type = "HTMLExprEnd"
       /\ tokens[i + 1].token_type = "Expression"
       /\ spans[i + 1][1] = spans[i][2]

====
